---------------------------- MODULE Spec2Model ----------------------------
(***************************************************************************)
(* CHIP-8 interpreter of src/main.rs: the Chip8 struct, its constructor,   *)
(* the two loaders, the fetch-decode-execute step Chip8::run and the host  *)
(* loop of main that calls it.                                             *)
(***************************************************************************)
EXTENDS Integers, Naturals, Sequences, FiniteSets, TLC

VARIABLES
    chip8,            \* the Chip8 value owned by main
    pc,               \* position of main: "load_rom", "load_fonts", "run", "host"
    op,               \* the instruction word fetched by the last run(), <<>> before
    panicked,         \* a panic!, a failed bounds check or a checked overflow ended the process
    overflow_checks   \* build profile: TRUE = arithmetic overflow panics, FALSE = it wraps

vars == <<chip8, pc, op, panicked, overflow_checks>>

-----------------------------------------------------------------------------
(* Sizes of the machine.                                                   *)
MemSize == 4096
StackSize == 16
NumRegs == 16
Width == 64
Height == 32
LoadAddr == 512
U8 == 256
U16 == 65536

(* Option<u8>: None is the empty sequence, Some(k) the one-element one.    *)
None == <<>>
Some(k) == <<k>>
is_some(o) == Len(o) > 0
unwrap(o) == o[1]

-----------------------------------------------------------------------------
(* Bit operations on bytes, bit by bit.                                    *)
RECURSIVE BitOp(_, _, _, _)
BitOp(f, a, b, bits) ==
    IF bits = 0 THEN 0
    ELSE LET ba == a % 2
             bb == b % 2
             r == CASE f = "or"  -> IF ba + bb > 0 THEN 1 ELSE 0
                    [] f = "and" -> ba * bb
                    [] f = "xor" -> (ba + bb) % 2
         IN r + 2 * BitOp(f, a \div 2, b \div 2, bits - 1)

BitOr(a, b) == BitOp("or", a, b, 8)
BitAnd(a, b) == BitOp("and", a, b, 8)
BitXor(a, b) == BitOp("xor", a, b, 8)

(* `v as i8`: the two's complement reading of a byte.                      *)
AsI8(v) == IF v >= 128 THEN v - U8 ELSE v
(* `d as u8` of a value in i8 range.                                       *)
AsU8(d) == d % U8
(* i8 arithmetic result wrapped into -128..127 (overflow-checks off).      *)
WrapI8(d) == ((d + 128) % U8) - 128

-----------------------------------------------------------------------------
(* The two large arrays, memory: [u8; 4096] and display: [u32; 2048], are  *)
(* kept as the function of their nonzero cells: a cell outside the domain  *)
(* holds 0, and a write of 0 removes the cell. Two arrays are equal        *)
(* exactly when these functions are. Indices are checked against the       *)
(* array's size where the code indexes.                                    *)
Zeros == [a \in {} |-> 0]
Cell(arr, i) == IF i \in DOMAIN arr THEN arr[i] ELSE 0
Put(arr, i, v) ==
    IF v = 0 THEN [j \in DOMAIN arr \ {i} |-> arr[j]]
    ELSE [j \in DOMAIN arr \cup {i} |-> IF j = i THEN v ELSE arr[j]]
(* arr after arr[base + k] = bytes[k + 1] for every k in 0..n-1.           *)
Overlay(arr, base, bytes, n) ==
    LET written == {base + k : k \in 0..(n - 1)}
        val(a) == IF a \in written THEN bytes[a - base + 1] ELSE arr[a]
    IN  [a \in {b \in DOMAIN arr \cup written : val(b) # 0} |-> val(a)]

-----------------------------------------------------------------------------
(* Opcode: the decoded view of an instruction word.                        *)
Opcode(w) ==
    [leading |-> (w \div 4096) % 16,
     x       |-> (w \div 256) % 16,
     y       |-> (w \div 16) % 16,
     n       |-> w % 16,
     nnn     |-> w % 4096,
     kk      |-> w % 256]

(* Chip8::new                                                              *)
new ==
    [counter          |-> LoadAddr,
     stack_pointer    |-> 0,
     stack            |-> [i \in 0..(StackSize - 1) |-> 0],
     address_register |-> 0,
     memory           |-> Zeros,
     data_registers   |-> [r \in 0..(NumRegs - 1) |-> 0],
     delay_timer      |-> 0,
     sound_timer      |-> 0,
     redraw_flag      |-> FALSE,
     display          |-> Zeros,
     pressed_key      |-> None]

(* Outcome of a method: the struct as the method left it, and whether it   *)
(* panicked (then `self` is the struct at the point of the panic).         *)
Ok(self) == [self |-> self, panic |-> FALSE]
Panic(self) == [self |-> self, panic |-> TRUE]


-----------------------------------------------------------------------------
(* Chip8::load_rom: content[i] goes to memory[i + 512], in order; the      *)
(* first index past the end of memory fails the bounds check, with the     *)
(* bytes before it already copied.                                         *)
load_rom(self, content) ==
    IF Len(content) + LoadAddr > MemSize
    THEN Panic([self EXCEPT !.memory = Overlay(@, LoadAddr, content, MemSize - LoadAddr)])
    ELSE Ok([self EXCEPT !.memory = Overlay(@, LoadAddr, content, Len(content))])

(* Chip8::load_fonts: fonts[i] goes to memory[i], likewise.                *)
load_fonts(self, fonts) ==
    IF Len(fonts) > MemSize
    THEN Panic([self EXCEPT !.memory = Overlay(@, 0, fonts, MemSize)])
    ELSE Ok([self EXCEPT !.memory = Overlay(@, 0, fonts, Len(fonts))])

(* The font table of main.                                                 *)
fontset ==
    <<240, 144, 144, 144, 240,   32,  96,  32,  32, 112,
      240,  16, 240, 128, 240,  240,  16, 240,  16, 240,
      144, 144, 240,  16,  16,  240, 128, 240,  16, 240,
      240, 128, 240, 144, 240,  240,  16,  32,  64,  64,
      240, 144, 240, 144, 240,  240, 144, 240,  16, 240,
      240, 144, 240, 144, 144,  224, 144, 224, 144, 224,
      240, 128, 128, 128, 240,  224, 144, 144, 144, 224,
      240, 128, 240, 128, 240,  240, 128, 240, 128, 128>>

-----------------------------------------------------------------------------
(* Chip8::run, piece by piece.                                             *)

(* The fetch: both byte reads are bounds-checked.                          *)
FetchOk(self) == self.counter < MemSize /\ (self.counter + 1) % U16 < MemSize
FetchWord(self) ==
    Cell(self.memory, self.counter) * 256 + Cell(self.memory, (self.counter + 1) % U16)

SetReg(self, r, v) == [self EXCEPT !.data_registers[r] = v]
(* counter += k. A fetched counter is at most 4094, so the u16 sum is exact. *)
Advance(self, k) == [self EXCEPT !.counter = (@ + k) % U16]
Skip(self, cond) == IF cond THEN Advance(self, 4) ELSE Advance(self, 2)

(* 00EE misread so that an empty stack is left alone instead of failing.   *)
ret_guarded(self, chk) ==
    IF self.stack_pointer = 0 THEN Ok(Advance(self, 2))
    ELSE LET sp == self.stack_pointer - 1 IN
         Ok([self EXCEPT !.stack_pointer = sp,
                         !.counter = (self.stack[sp] + 2) % U16])

(* 00EE misread so that the return lands on the call, not after it.        *)
ret_no_advance(self, chk) ==
    IF self.stack_pointer = 0 \/ self.stack_pointer - 1 >= StackSize THEN Panic(self)
    ELSE Ok([self EXCEPT !.stack_pointer = @ - 1,
                         !.counter = self.stack[self.stack_pointer - 1]])

(* 00EE: stack_pointer -= 1; counter = stack[stack_pointer]; counter += 2. *)
(* With an empty stack the decrement underflows: a checked build panics    *)
(* there, an unchecked one wraps to 65535 and the index fails the bounds   *)
(* check.                                                                  *)
ret(self, chk) ==
    IF self.stack_pointer = 0
    THEN IF chk THEN Panic(self)
         ELSE Panic([self EXCEPT !.stack_pointer = U16 - 1])
    ELSE LET sp == self.stack_pointer - 1 IN
         IF sp >= StackSize THEN Panic([self EXCEPT !.stack_pointer = sp])
         ELSE Ok([self EXCEPT !.stack_pointer = sp,
                              !.counter = (self.stack[sp] + 2) % U16])

(* 0x0: 00E0, 00EE, and the empty arm of every other 0nnn.                 *)
exec_0(self, opcode, chk) ==
    CASE opcode.nnn = 224 ->
           Ok(Advance([self EXCEPT !.display = Zeros,
                                   !.redraw_flag = TRUE], 2))
      [] opcode.nnn = 238 -> ret(self, chk)
      [] OTHER -> Ok(self)

(* 0x2: call.                                                              *)
exec_2(self, opcode) ==
    IF self.stack_pointer >= StackSize THEN Panic(self)
    ELSE Ok([self EXCEPT !.stack[self.stack_pointer] = self.counter,
                         !.stack_pointer = @ + 1,
                         !.counter = opcode.nnn])

(* 8xy5 and 8xy7: the difference a - b of two bytes taken as i8.           *)
sub_i8(self, opcode, chk, a, b) ==
    LET d == AsI8(a) - AsI8(b)
        diff == WrapI8(d)
    IN  IF d # diff /\ chk THEN Panic(self)
        ELSE Ok(Advance(SetReg(SetReg(self, opcode.x, AsU8(diff)),
                               15, IF diff < 0 THEN 1 ELSE 0), 2))

(* 8xy4 misread so that VF is written only when there is a carry.          *)
add_carry_set_only(self, opcode) ==
    LET value == self.data_registers[opcode.x] + self.data_registers[opcode.y]
        s1 == SetReg(self, opcode.x, value % U8)
    IN  Ok(Advance(IF value > 255 THEN SetReg(s1, 15, 1) ELSE s1, 2))

(* 8xy4: the sum is taken in u16, Vx takes its low byte (`value as u8`),   *)
(* then VF the carry.                                                      *)
add_carry(self, opcode) ==
    LET value == self.data_registers[opcode.x] + self.data_registers[opcode.y] IN
    Ok(Advance(SetReg(SetReg(self, opcode.x, value % U8),
                      15, IF value > 255 THEN 1 ELSE 0), 2))

(* 0x8: register-to-register arithmetic.                                   *)
exec_8(self, opcode, chk) ==
    LET vx == self.data_registers[opcode.x]
        vy == self.data_registers[opcode.y]
    IN  CASE opcode.n = 0 -> Ok(Advance(SetReg(self, opcode.x, vy), 2))
          [] opcode.n = 1 -> Ok(Advance(SetReg(self, opcode.x, BitOr(vx, vy)), 2))
          [] opcode.n = 2 -> Ok(Advance(SetReg(self, opcode.x, BitAnd(vx, vy)), 2))
          [] opcode.n = 3 -> Ok(Advance(SetReg(self, opcode.x, BitXor(vx, vy)), 2))
          [] opcode.n = 4 -> add_carry(self, opcode)
          [] opcode.n = 5 -> sub_i8(self, opcode, chk, vx, vy)
          [] opcode.n = 6 ->
               LET s1 == SetReg(self, 15, BitAnd(vx, 1)) IN
               Ok(Advance(SetReg(s1, opcode.x, s1.data_registers[opcode.x] \div 2), 2))
          [] opcode.n = 7 -> sub_i8(self, opcode, chk, vy, vx)
          [] opcode.n = 14 ->
               LET s1 == SetReg(self, 15, vx \div 128) IN
               Ok(Advance(SetReg(s1, opcode.x, (s1.data_registers[opcode.x] * 2) % U8), 2))
          [] OTHER -> Panic(self)

(* The inner loop misread so that the sprite bit is added to the cell, not *)
(* XORed into it.                                                          *)
RECURSIVE draw_bits_added(_, _, _, _, _, _)
draw_bits_added(self, opcode, chk, byte, y, bit) ==
    IF bit >= 8 THEN Ok(self)
    ELSE LET s == self.data_registers[opcode.x] + bit
             a == self.address_register + byte
         IN  IF s >= U8 /\ chk THEN Panic(self)
             ELSE IF a >= U16 /\ chk THEN Panic(self)
             ELSE IF a % U16 >= MemSize THEN Panic(self)
             ELSE LET x == (s % U8) % Width
                      color == (Cell(self.memory, a % U16) \div (2 ^ (7 - bit))) % 2
                      cell == y * Width + x
                      vf == BitOr(self.data_registers[15],
                                  BitAnd(color, Cell(self.display, cell) % U8))
                  IN  draw_bits_added([self EXCEPT !.data_registers[15] = vf,
                                                   !.display = Put(@, cell, Cell(@, cell) + color)],
                                      opcode, chk, byte, y, bit + 1)

(* 0xD: the sprite loops. VF is cleared first and is then both the flag   *)
(* the loop ORs into and, when x or y is 15, the coordinate it reads. The  *)
(* u8 sums Vy + byte and Vx + bit and the u16 sum I + byte are checked for *)
(* overflow in a checked build; the memory read is bounds-checked.         *)
RECURSIVE draw_bits(_, _, _, _, _, _)
draw_bits(self, opcode, chk, byte, y, bit) ==
    IF bit >= 8 THEN Ok(self)
    ELSE LET s == self.data_registers[opcode.x] + bit
             a == self.address_register + byte
         IN  IF s >= U8 /\ chk THEN Panic(self)
             ELSE IF a >= U16 /\ chk THEN Panic(self)
             ELSE IF a % U16 >= MemSize THEN Panic(self)
             ELSE LET x == (s % U8) % Width
                      color == (Cell(self.memory, a % U16) \div (2 ^ (7 - bit))) % 2
                      cell == y * Width + x
                      vf == BitOr(self.data_registers[15],
                                  BitAnd(color, Cell(self.display, cell) % U8))
                  IN  draw_bits([self EXCEPT !.data_registers[15] = vf,
                                             !.display = Put(@, cell, BitXor(Cell(@, cell), color))],
                                opcode, chk, byte, y, bit + 1)

RECURSIVE draw_rows(_, _, _, _)
draw_rows(self, opcode, chk, byte) ==
    IF byte >= opcode.n THEN Ok(self)
    ELSE LET s == self.data_registers[opcode.y] + byte IN
         IF s >= U8 /\ chk THEN Panic(self)
         ELSE LET r == draw_bits(self, opcode, chk, byte, (s % U8) % Height, 0) IN
              IF r.panic THEN r ELSE draw_rows(r.self, opcode, chk, byte + 1)

(* Dxyn misread so that VF is not cleared before the loops.                *)
exec_d_stale(self, opcode, chk) ==
    LET r == draw_rows(self, opcode, chk, 0) IN
    IF r.panic THEN r
    ELSE Ok(Advance([r.self EXCEPT !.redraw_flag = TRUE], 2))

exec_d(self, opcode, chk) ==
    LET r == draw_rows(SetReg(self, 15, 0), opcode, chk, 0) IN
    IF r.panic THEN r
    ELSE Ok(Advance([r.self EXCEPT !.redraw_flag = TRUE], 2))

(* ExA1 misread as skipping whenever the key Vx names is not the one down, *)
(* also when none is.                                                      *)
exec_e_absent(self, opcode) ==
    LET register_key == self.data_registers[opcode.x] IN
    CASE opcode.kk = 158 ->
           Ok(Skip(self, is_some(self.pressed_key)
                         /\ register_key = unwrap(self.pressed_key)))
      [] opcode.kk = 161 ->
           Ok(Skip(self, ~is_some(self.pressed_key)
                         \/ register_key # unwrap(self.pressed_key)))
      [] OTHER -> Panic(self)

(* 0xE: key skips.                                                         *)
exec_e(self, opcode) ==
    LET register_key == self.data_registers[opcode.x] IN
    CASE opcode.kk = 158 ->
           Ok(Skip(self, is_some(self.pressed_key)
                         /\ register_key = unwrap(self.pressed_key)))
      [] opcode.kk = 161 ->
           Ok(Skip(self, is_some(self.pressed_key)
                         /\ register_key # unwrap(self.pressed_key)))
      [] OTHER -> Panic(self)

(* Fx33 misread so that the tens digit is Vx / 10, the hundreds left in.   *)
store_bcd_tens(self, opcode) ==
    LET vx == self.data_registers[opcode.x]
        i == self.address_register
        s1 == [self EXCEPT !.memory = Put(@, i, vx \div 100)]
        s2 == [s1 EXCEPT !.memory = Put(@, i + 1, vx \div 10)]
        s3 == [s2 EXCEPT !.memory = Put(@, i + 2, vx % 10)]
    IN  IF i >= MemSize THEN Panic(self)
        ELSE IF i + 1 >= MemSize THEN Panic(s1)
        ELSE IF i + 2 >= MemSize THEN Panic(s2)
        ELSE Ok(Advance(s3, 2))

(* Fx33: three bounds-checked writes at I, I+1, I+2 (usize sums).          *)
store_bcd(self, opcode) ==
    LET vx == self.data_registers[opcode.x]
        i == self.address_register
        s1 == [self EXCEPT !.memory = Put(@, i, vx \div 100)]
        s2 == [s1 EXCEPT !.memory = Put(@, i + 1, (vx % 100) \div 10)]
        s3 == [s2 EXCEPT !.memory = Put(@, i + 2, vx % 10)]
    IN  IF i >= MemSize THEN Panic(self)
        ELSE IF i + 1 >= MemSize THEN Panic(s1)
        ELSE IF i + 2 >= MemSize THEN Panic(s2)
        ELSE Ok(Advance(s3, 2))

(* Fx55 misread so that the address is cut to twelve bits, not checked.    *)
RECURSIVE store_regs_wrapped(_, _, _, _)
store_regs_wrapped(self, opcode, chk, i) ==
    IF i >= opcode.x + 1 THEN Ok(Advance(self, 2))
    ELSE LET a == (self.address_register + i) % MemSize IN
         store_regs_wrapped([self EXCEPT !.memory = Put(@, a, self.data_registers[opcode.x])],
                            opcode, chk, i + 1)

(* Fx55: for i in 0..x+1, memory[I + i] = data_registers[x].               *)
RECURSIVE store_regs(_, _, _, _)
store_regs(self, opcode, chk, i) ==
    IF i >= opcode.x + 1 THEN Ok(Advance(self, 2))
    ELSE LET a == self.address_register + i IN
         IF a >= U16 /\ chk THEN Panic(self)
         ELSE IF a % U16 >= MemSize THEN Panic(self)
         ELSE store_regs([self EXCEPT !.memory = Put(@, a % U16, self.data_registers[opcode.x])],
                         opcode, chk, i + 1)

(* Fx65: for i in 0..x+1, data_registers[x] = memory[I + i].               *)
RECURSIVE load_regs(_, _, _, _)
load_regs(self, opcode, chk, i) ==
    IF i >= opcode.x + 1 THEN Ok(Advance(self, 2))
    ELSE LET a == self.address_register + i IN
         IF a >= U16 /\ chk THEN Panic(self)
         ELSE IF a % U16 >= MemSize THEN Panic(self)
         ELSE load_regs(SetReg(self, opcode.x, Cell(self.memory, a % U16)),
                        opcode, chk, i + 1)

(* Fx0A misread so that the counter advances whether or not a key is down. *)
wait_key_through(self, opcode) ==
    LET s1 == IF is_some(self.pressed_key)
              THEN SetReg(self, opcode.x, unwrap(self.pressed_key))
              ELSE self
    IN  Ok(Advance([s1 EXCEPT !.redraw_flag = TRUE], 2))

(* Fx0A: with a key down, Vx takes it and the counter advances; the redraw *)
(* flag is set either way.                                                 *)
wait_key(self, opcode) ==
    LET s1 == IF is_some(self.pressed_key)
              THEN Advance(SetReg(self, opcode.x, unwrap(self.pressed_key)), 2)
              ELSE self
    IN  Ok([s1 EXCEPT !.redraw_flag = TRUE])

(* 0xF: timers, key wait, address register, memory transfers.              *)
exec_f(self, opcode, chk) ==
    LET vx == self.data_registers[opcode.x] IN
    CASE opcode.kk = 7 -> Ok(Advance(SetReg(self, opcode.x, self.delay_timer), 2))
      [] opcode.kk = 10 -> wait_key(self, opcode)
      [] opcode.kk = 21 -> Ok(Advance([self EXCEPT !.delay_timer = vx], 2))
      [] opcode.kk = 24 -> Ok(Advance([self EXCEPT !.sound_timer = vx], 2))
      [] opcode.kk = 30 ->
           LET sum == self.address_register + vx IN
           IF sum >= U16 /\ chk THEN Panic(self)
           ELSE LET s1 == [self EXCEPT !.address_register = sum % U16] IN
                Ok(Advance(SetReg(s1, 15, IF s1.address_register > 3840 THEN 1 ELSE 0), 2))
      [] opcode.kk = 41 ->
           LET prod == vx * 5 IN
           IF prod >= U8 /\ chk THEN Panic(self)
           ELSE Ok(Advance([self EXCEPT !.address_register = prod % U8], 2))
      [] opcode.kk = 51 -> store_bcd(self, opcode)
      [] opcode.kk = 85 -> store_regs(self, opcode, chk, 0)
      [] opcode.kk = 101 -> load_regs(self, opcode, chk, 0)
      [] OTHER -> Panic(self)

(* 7xkk misread as an add that reports its carry in VF.                    *)
add_imm_flagged(self, opcode) ==
    LET sum == self.data_registers[opcode.x] + opcode.kk IN
    Ok(Advance(SetReg(SetReg(self, 15, IF sum > 255 THEN 1 ELSE 0),
                      opcode.x, sum % U8), 2))

(* 7xkk: Vx = Vx.wrapping_add(kk).                                         *)
add_imm(self, opcode) ==
    Ok(Advance(SetReg(self, opcode.x, (self.data_registers[opcode.x] + opcode.kk) % U8), 2))

(* The match on opcode.leading. rnd is the byte rng.gen::<u8>() returns.   *)
exec(self, opcode, rnd, chk) ==
    LET vx == self.data_registers[opcode.x]
        vy == self.data_registers[opcode.y]
    IN  CASE opcode.leading = 0 -> exec_0(self, opcode, chk)
          [] opcode.leading = 1 -> Ok([self EXCEPT !.counter = opcode.nnn])
          [] opcode.leading = 2 -> exec_2(self, opcode)
          [] opcode.leading = 3 -> Ok(Skip(self, vx = opcode.kk))
          [] opcode.leading = 4 -> Ok(Skip(self, vx # opcode.kk))
          [] opcode.leading = 5 -> Ok(Skip(self, vy = vx))
          [] opcode.leading = 6 -> Ok(Advance(SetReg(self, opcode.x, opcode.kk), 2))
          [] opcode.leading = 7 -> add_imm(self, opcode)
          [] opcode.leading = 8 -> exec_8(self, opcode, chk)
          [] opcode.leading = 9 -> Ok(Skip(self, vx # vy))
          [] opcode.leading = 10 ->
               Ok(Advance([self EXCEPT !.address_register = opcode.nnn], 2))
          [] opcode.leading = 11 ->
               Ok([self EXCEPT !.counter = opcode.nnn + self.data_registers[0]])
          [] opcode.leading = 12 ->
               Ok(Advance(SetReg(self, opcode.x, BitAnd(rnd, opcode.kk)), 2))
          [] opcode.leading = 13 -> exec_d(self, opcode, chk)
          [] opcode.leading = 14 -> exec_e(self, opcode)
          [] opcode.leading = 15 -> exec_f(self, opcode, chk)
          [] OTHER -> Panic(self)

(* The tick misread so that the timers are not held at zero.               *)
tick_no_floor(self) ==
    [self EXCEPT !.delay_timer = @ - 1, !.sound_timer = @ - 1]

(* The timer tick that ends run.                                           *)
tick(self) ==
    [self EXCEPT !.delay_timer = IF @ > 0 THEN @ - 1 ELSE @,
                 !.sound_timer = IF @ > 0 THEN @ - 1 ELSE @]

(* run misread so that the timers tick before the instruction executes.    *)
run_tick_first(self, rnd, chk) ==
    IF ~FetchOk(self) THEN Panic(self)
    ELSE exec(tick(self), Opcode(FetchWord(self)), rnd, chk)

(* run misread so that the timers tick whether or not the match panicked.  *)
run_tick_always(self, rnd, chk) ==
    IF ~FetchOk(self) THEN Panic(self)
    ELSE LET r == exec(self, Opcode(FetchWord(self)), rnd, chk) IN
         [self |-> tick(r.self), panic |-> r.panic]

(* Chip8::run: fetch, decode, execute, tick. A panic ends it where it is.  *)
run(self, rnd, chk) ==
    IF ~FetchOk(self) THEN Panic(self)
    ELSE LET r == exec(self, Opcode(FetchWord(self)), rnd, chk) IN
         IF r.panic THEN r ELSE Ok(tick(r.self))

-----------------------------------------------------------------------------
(* Program images. A program is a sequence of instruction words, stored    *)
(* big-endian as the bytes load_rom copies.                                *)
Ins(l, x, y, n) == l * 4096 + x * 256 + y * 16 + n
InsK(l, x, kk) == l * 4096 + x * 256 + kk
InsN(l, nnn) == l * 4096 + nnn
Image(words) ==
    [i \in 1..(2 * Len(words)) |->
        IF i % 2 = 1 THEN words[(i + 1) \div 2] \div 256 ELSE words[i \div 2] % 256]
(* Address of the k-th word (from 0) of a loaded program.                  *)
At(k) == LoadAddr + 2 * k

(* Byte values the programs load into registers: small, large, and the    *)
(* ones on both sides of the i8 sign bit.                                  *)
Bytes == {0, 5, 10, 100, 127, 128, 200, 255}

(* Register arithmetic: V1 := a; V2 := b; V1 op V2.                        *)
AluPrograms ==
    {<<InsK(6, 1, a), InsK(6, 2, b), Ins(8, 1, 2, n)>> :
        a \in Bytes, b \in Bytes, n \in {5, 7}}

(* Block transfers: V0..V2 distinct, I in free memory, Fx55; and Fx65 from *)
(* the font table (memory[0..2] = F0 90 90) or from what Fx55 stored.      *)
MemPrograms ==
    {<<InsK(6, 0, 17), InsK(6, 1, 34), InsK(6, 2, 51), InsN(10, i), InsK(15, x, 85),
       InsK(6, 0, 0), InsK(6, 1, 0), InsK(6, 2, 0), InsK(15, x, 101)>> :
        i \in {768, 4093}, x \in {0, 1, 2}}
    \cup {<<InsN(10, i), InsK(15, x, 101)>> : i \in {0, 5, 77}, x \in {0, 1, 2, 15}}
    \cup {<<InsK(6, 0, 1), InsK(6, 15, 9), InsN(10, i), InsK(15, 15, 85)>> :
            i \in {768, 4080, 4090}}

(* Longest chain of nested calls the programs make.                        *)
MaxDepth == 17

(* k nested subroutines: subroutine j is the pair of words at At(2j), a    *)
(* call of subroutine j + 1 and a return; the innermost is a lone return.  *)
(* The outermost pair is the main program, so its return has nothing to    *)
(* return to.                                                              *)
CallChain(k) ==
    [i \in 1..(2 * k + 1) |->
        IF i % 2 = 1 /\ i <= 2 * k THEN InsN(2, At(i + 1)) ELSE 238]

(* Control flow: unsupported 0nnn words, nested subroutines, a subroutine  *)
(* calling itself, a return with nothing to return to.                     *)
FlowPrograms ==
    {CallChain(k) : k \in 0..MaxDepth}
    \cup {<<InsN(0, nnn), InsK(6, 1, 5)>> : nnn \in {0, 291, 225, 4095}}
    \cup {<<InsN(2, At(3)), InsK(6, 2, 9), InsN(1, At(2)),
            InsN(2, At(5)), 238,
            InsK(6, 1, 7), 238>>,
          <<InsN(2, At(0))>>,
          <<InsK(6, 1, 1), InsN(2, At(3)), InsN(1, At(1)), InsK(7, 1, 1), InsN(0, 224), 238>>}

(* Sprites: the glyphs of the font table at I = 0 (or 5), or 15 zero bytes *)
(* at I = 768; drawn twice at (Vx, Vy), on screen, across the right and    *)
(* bottom edges, and with coordinates near 255; with VF as a coordinate    *)
(* register; and one glyph drawn over another.                             *)
DrawPrograms ==
    {<<InsK(6, 1, vx), InsK(6, 2, vy), InsK(6, 15, 85), InsN(10, 0),
       Ins(13, 1, 2, n), Ins(13, 1, 2, n)>> :
        vx \in {0, 62, 250}, vy \in {0, 30, 250}, n \in {0, 1, 5, 15}}
    \cup {<<InsK(6, 15, 85), InsN(10, 768), Ins(13, 1, 2, n)>> : n \in {1, 15}}
    \cup {<<InsK(6, 2, 3), InsK(6, 15, vf), InsN(10, 0), Ins(13, x, y, n), Ins(13, x, y, n)>> :
            vf \in {0, 10}, x \in {2, 15}, y \in {2, 15}, n \in {1, 5}}
    \cup {<<InsK(6, 1, vx), InsN(10, 0), Ins(13, 1, 2, 5), InsN(10, 5), Ins(13, 1, 2, 5),
            InsN(0, 224)>> : vx \in {0, 4}}

(* Additions: V1 := a; V2 := b; VF := 9; V1 += Vy for y = 1, 2, F; three   *)
(* adds in a row; and V1 := a; VF := 9; V1 += kk; VF += kk.                *)
AddPrograms ==
    {<<InsK(6, 1, a), InsK(6, 2, b), InsK(6, 15, 9), Ins(8, 1, y, 4)>> :
        a \in Bytes, b \in Bytes, y \in {1, 2, 15}}
    \cup {<<InsK(6, 1, a), InsK(6, 2, b), Ins(8, 1, 2, 4), Ins(8, 2, 1, 4), Ins(8, 1, 2, 4)>> :
            a \in {1, 255}, b \in {1, 2}}
    \cup {<<InsK(6, 1, a), InsK(6, 15, 9), InsK(7, 1, kk), InsK(7, 15, kk)>> :
            a \in Bytes, kk \in Bytes}

(* Number of times the long programs add 255 to I = 0xFFF: it brings I to  *)
(* 65295, within one more add of the end of u16.                           *)
MaxAdds == 240

(* I := 0xFFF; V1 := 0xFF; V2 := 0xF0; k times I += V1; then `tail`.       *)
AddChain(k, tail) ==
    <<InsN(10, 4095), InsK(6, 1, 255), InsK(6, 2, 240)>>
        \o [i \in 1..k |-> InsK(15, 1, 30)] \o tail

(* Instructions that reach memory through I: two draws, Fx55, Fx65, Fx33.  *)
Accessors ==
    {Ins(13, 0, 0, 5), Ins(13, 0, 0, 15), InsK(15, 2, 85), InsK(15, 2, 101), InsK(15, 1, 51)}

(* The address register and the counter: font addresses; I += Vx from      *)
(* around 0x0F00 and, in the long programs, up to the end of u16; BCD      *)
(* stores of every byte, and at both ends of memory; jumps to the end of   *)
(* memory and past it; and memory accesses with I at the end of memory,    *)
(* past it, and at 65535.                                                  *)
AddrPrograms ==
    {<<InsK(6, 1, v), InsK(15, 1, 41)>> : v \in {0, 5, 15, 51, 52, 255}}
    \cup {<<InsN(10, i), InsK(6, x, v), InsK(15, x, 30)>> :
            i \in {0, 3585, 3840, 4095}, x \in {1, 15}, v \in {0, 1, 255}}
    \cup {AddChain(MaxAdds, <<InsK(15, 1, 30)>>)}
    \cup {AddChain(MaxAdds, <<InsK(15, 2, 30), acc>>) : acc \in Accessors}
    \cup {<<InsK(6, 1, v), InsN(10, 768), InsK(15, 1, 51)>> : v \in 0..(U8 - 1)}
    \cup {<<InsK(6, 1, v), InsN(10, i), InsK(15, 1, 51)>> :
            v \in Bytes, i \in {0, 4093, 4094, 4095}}
    \cup {<<InsN(1, 4095)>>, <<InsN(1, 4094)>>,
          <<InsK(6, 0, 255), InsN(11, 4095)>>, <<InsK(6, 0, 1), InsN(11, 4094)>>}
    \cup {<<InsN(10, i), InsK(6, 1, 34), InsK(6, 2, 51), acc>> :
            i \in {4081, 4091, 4094, 4095}, acc \in Accessors}
    \cup {<<InsN(10, 4095), InsK(6, 2, 255), InsK(15, 2, 30), acc>> : acc \in Accessors}

(* Largest value the timer programs load into a timer.                     *)
MaxTimer == 4

(* Timers and keys: a timer is set and left to run down through ordinary   *)
(* instructions, a key wait and an unsupported word; it is read back and   *)
(* set again.                                                              *)
IoPrograms ==
    {<<InsK(6, 1, d), InsK(15, 1, t), InsK(15, 2, 7), InsK(15, 3, 10), InsK(6, 4, 1),
       InsK(15, 2, 7), InsK(15, 4, t), InsN(0, 291)>> :
        d \in 0..MaxTimer, t \in {21, 24}}
    \cup {<<InsK(15, 1, 10), InsK(15, 2, 10), InsK(6, 3, 1), InsN(1, At(0))>>}

(* The keys window.get_keys_pressed can report first, and the match that   *)
(* turns the first one into a key code.                                    *)
NoKeys == {<<>>}
PadKeys == {<<>>, <<"Key4">>, <<"V">>, <<"Space">>}
key_code(k) ==
    CASE k = "Key1" -> Some(1)   [] k = "Key2" -> Some(2)
      [] k = "Key3" -> Some(3)   [] k = "Key4" -> Some(12)
      [] k = "Q" -> Some(4)      [] k = "W" -> Some(5)
      [] k = "E" -> Some(6)      [] k = "R" -> Some(13)
      [] k = "A" -> Some(7)      [] k = "S" -> Some(8)
      [] k = "D" -> Some(9)      [] k = "F" -> Some(14)
      [] k = "Y" -> Some(10)     [] k = "X" -> Some(0)
      [] k = "C" -> Some(11)     [] k = "V" -> Some(15)
      [] OTHER -> None

(* The keys the key-skip programs are run with: none, three that map to    *)
(* codes 0, 12 and 15, and one outside the pad.                            *)
SkipKeys == PadKeys \cup {<<"X">>}

(* Key skips: V1 := v, then Ex9E and ExA1 in a loop whose every landing    *)
(* place, skipped to or not, is another skip or the jump back.             *)
KeyPrograms ==
    {<<InsK(6, 1, v), InsK(14, 1, 158), InsK(14, 1, 161), InsK(14, 1, 161),
       InsK(14, 1, 158), InsN(1, At(1)), InsN(1, At(1))>> : v \in {0, 12, 15}}

(* Words of every family: each low nibble of 8xyN, each low byte of Exkk   *)
(* and Fxkk, and words of the families that have no sub-selector.          *)
Words ==
    {Ins(8, 1, 2, n) : n \in 0..15}
    \cup {InsK(l, 1, kk) : l \in {14, 15}, kk \in 0..(U8 - 1)}
    \cup {InsN(0, 224), InsN(0, 238), InsN(0, 291), InsN(1, At(1)), InsN(2, At(0)),
          InsK(3, 1, 3), InsK(4, 1, 3), Ins(5, 1, 2, 0), Ins(5, 1, 2, 7),
          InsK(6, 1, 9), InsK(7, 1, 255), Ins(9, 1, 2, 0), Ins(9, 1, 2, 5),
          InsN(10, 4095), InsN(11, At(1)), InsK(12, 1, 15), Ins(13, 1, 2, 5)}

(* Decoding: a call of the next word, V1 := 3, the glyph "0" drawn at      *)
(* (3, 3), both timers set from V1, and then the word under test, reached  *)
(* with the stack pointer at 1, pixels lit and both timers running.        *)
DecodePrograms ==
    {<<InsN(2, At(1)), InsK(6, 1, 3), Ins(13, 1, 1, 5), InsK(15, 1, 21), InsK(15, 1, 24), w>> :
        w \in Words}

(* Bytes the random source returns in the model.                           *)
RandomBytes == {0, 170, 255}

-----------------------------------------------------------------------------
Init ==
    /\ chip8 = new
    /\ pc = "load_rom"
    /\ op = <<>>
    /\ panicked = FALSE
    /\ overflow_checks \in BOOLEAN

(* main: chip8.load_rom(..), the image being one of `programs`.            *)
LoadRom(programs) ==
    /\ pc = "load_rom" /\ ~panicked
    /\ \E words \in programs :
          LET r == load_rom(chip8, Image(words)) IN
          /\ chip8' = r.self
          /\ panicked' = r.panic
    /\ pc' = "load_fonts"
    /\ UNCHANGED <<op, overflow_checks>>

(* main: chip8.load_fonts(fontset)                                         *)
LoadFonts ==
    /\ pc = "load_fonts" /\ ~panicked
    /\ LET r == load_fonts(chip8, fontset) IN
          /\ chip8' = r.self
          /\ panicked' = r.panic
    /\ pc' = "run"
    /\ UNCHANGED <<op, overflow_checks>>

(* main loop: chip8.run()                                                  *)
Run ==
    /\ pc = "run" /\ ~panicked
    /\ \E rnd \in IF FetchOk(chip8) /\ Opcode(FetchWord(chip8)).leading = 12
                  THEN RandomBytes ELSE {0} :
          LET r == run(chip8, rnd, overflow_checks) IN
          /\ chip8' = r.self
          /\ panicked' = r.panic
    /\ op' = IF FetchOk(chip8) THEN <<FetchWord(chip8)>> ELSE op
    /\ pc' = "host"
    /\ UNCHANGED overflow_checks

(* main loop after run: the redraw flag is forced, the key is polled (it   *)
(* replaces pressed_key when one is down or 200 ms have passed), the       *)
(* window is updated and the flag cleared. `keysets` is what the keyboard  *)
(* can report.                                                             *)
Host(keysets) ==
    /\ pc = "host" /\ ~panicked
    /\ \E keys \in keysets, elapsed \in BOOLEAN :
          LET key == IF keys # <<>> THEN key_code(keys[1]) ELSE None
              s1 == [chip8 EXCEPT !.redraw_flag = TRUE]
              s2 == IF is_some(key) \/ elapsed
                    THEN [s1 EXCEPT !.pressed_key = key] ELSE s1
          IN  chip8' = [s2 EXCEPT !.redraw_flag = FALSE]
    /\ pc' = "run"
    /\ UNCHANGED <<op, panicked, overflow_checks>>

(* The interpreter on each family of programs.                             *)
NextAlu == LoadRom(AluPrograms) \/ LoadFonts \/ Run \/ Host(NoKeys)
SpecAlu == Init /\ [][NextAlu]_vars

NextMem == LoadRom(MemPrograms) \/ LoadFonts \/ Run \/ Host(NoKeys)
SpecMem == Init /\ [][NextMem]_vars

NextFlow == LoadRom(FlowPrograms) \/ LoadFonts \/ Run \/ Host(NoKeys)
SpecFlow == Init /\ [][NextFlow]_vars

NextDraw == LoadRom(DrawPrograms) \/ LoadFonts \/ Run \/ Host(NoKeys)
SpecDraw == Init /\ [][NextDraw]_vars

NextAdd == LoadRom(AddPrograms) \/ LoadFonts \/ Run \/ Host(NoKeys)
SpecAdd == Init /\ [][NextAdd]_vars

NextAddr == LoadRom(AddrPrograms) \/ LoadFonts \/ Run \/ Host(NoKeys)
SpecAddr == Init /\ [][NextAddr]_vars

NextKey == LoadRom(KeyPrograms) \/ LoadFonts \/ Run \/ Host(SkipKeys)
SpecKey == Init /\ [][NextKey]_vars

NextDecode == LoadRom(DecodePrograms) \/ LoadFonts \/ Run \/ Host(NoKeys)
SpecDecode == Init /\ [][NextDecode]_vars

NextIo == LoadRom(IoPrograms) \/ LoadFonts \/ Run \/ Host(PadKeys)
SpecIo == Init /\ [][NextIo]_vars
(* main calls run and polls the keyboard in every turn of its loop.        *)
FairSpecIo == SpecIo /\ WF_vars(Run) /\ WF_vars(Host(PadKeys))

-----------------------------------------------------------------------------
(* Vocabulary of the properties. A step of main that calls run(), the      *)
(* opcode that call decodes, and the registers before it.                  *)
RunStep == pc = "run" /\ pc' = "host"
Fetched == Opcode(FetchWord(chip8))
Executes(leading) == RunStep /\ FetchOk(chip8) /\ Fetched.leading = leading
V(r) == chip8.data_registers[r]
I == chip8.address_register
Max(a, b) == IF a >= b THEN a ELSE b
Last(word) == op = <<word>>

(* C1: Fx55 with I + x <= 4095 leaves memory[I + i] = Vi (the value before *)
(* the step) for every i in 0..x and changes no register; Fx65 leaves      *)
(* Vi = memory[I + i] for every i in 0..x and changes no memory cell; both *)
(* advance the counter by 2.                                               *)
C1_BlockTransfer ==
    [][ (Executes(15) /\ I + Fetched.x <= MemSize - 1) =>
          /\ Fetched.kk = 85 =>
                /\ \A i \in 0..Fetched.x : Cell(chip8'.memory, I + i) = V(i)
                /\ chip8'.data_registers = chip8.data_registers
                /\ chip8'.counter = chip8.counter + 2
          /\ Fetched.kk = 101 =>
                /\ \A i \in 0..Fetched.x : chip8'.data_registers[i] = Cell(chip8.memory, I + i)
                /\ chip8'.memory = chip8.memory
                /\ chip8'.counter = chip8.counter + 2 ]_vars

(* C2: 8xy5 (x # F) never aborts and leaves Vx = (Vx - Vy) mod 256 and     *)
(* VF = 1 exactly when Vx < Vy; 8xy7 likewise with Vy - Vx and Vy < Vx.    *)
C2_SubBorrow ==
    [][ (Executes(8) /\ Fetched.n \in {5, 7} /\ Fetched.x # 15) =>
          LET a == IF Fetched.n = 5 THEN V(Fetched.x) ELSE V(Fetched.y)
              b == IF Fetched.n = 5 THEN V(Fetched.y) ELSE V(Fetched.x)
          IN  /\ ~panicked'
              /\ chip8'.data_registers[Fetched.x] = (a - b) % U8
              /\ chip8'.data_registers[15] = IF a < b THEN 1 ELSE 0 ]_vars

(* C3: a word 0nnn other than 00E0 and 00EE advances the counter by 2 and  *)
(* changes neither registers, I, stack, stack pointer, memory nor display. *)
C3_UnsupportedAdvances ==
    [][ (Executes(0) /\ Fetched.nnn \notin {224, 238}) =>
          /\ ~panicked'
          /\ chip8'.counter = chip8.counter + 2
          /\ chip8'.data_registers = chip8.data_registers
          /\ chip8'.address_register = chip8.address_register
          /\ chip8'.stack = chip8.stack
          /\ chip8'.stack_pointer = chip8.stack_pointer
          /\ chip8'.memory = chip8.memory
          /\ chip8'.display = chip8.display ]_vars

(* The display a sprite draw is to produce: sprite bit (r, c), the bit of  *)
(* weight 2^(7-c) of mem[i + r], XORed into column (vx + c) mod 64 of row  *)
(* (vy + r) mod 32.                                                        *)
Blit(display, mem, i, vx, vy, n) ==
    LET val(p) ==
            LET c == ((p % Width) - vx) % Width
                r == ((p \div Width) - vy) % Height
            IN  IF c < 8 /\ r < n
                THEN (Cell(display, p) + ((Cell(mem, i + r) \div (2 ^ (7 - c))) % 2)) % 2
                ELSE Cell(display, p)
    IN  [p \in {q \in 0..(Width * Height - 1) : val(q) # 0} |-> val(p)]

(* Some pixel is lit in `before` and dark in `after`.                      *)
Erased(before, after) ==
    \E p \in 0..(Width * Height - 1) : Cell(before, p) = 1 /\ Cell(after, p) = 0

(* The word at the counter is a Dxyn, the word after it is the same word,  *)
(* and the sprite lies inside memory.                                      *)
DrawsTwice ==
    /\ pc = "run" /\ ~panicked
    /\ FetchOk(chip8) /\ Fetched.leading = 13
    /\ FetchOk(Advance(chip8, 2))
    /\ FetchWord(Advance(chip8, 2)) = FetchWord(chip8)
    /\ I + Fetched.n <= MemSize

(* C4: two executions in succession of the same Dxyn, with I, the sprite   *)
(* and the values of Vx and Vy the same before each, restore the display,  *)
(* and VF after the second is 1 exactly when the first lit a pixel.        *)
C4_DrawInvolution ==
    DrawsTwice =>
        LET first == run(chip8, 0, overflow_checks)
            second == run(first.self, 0, overflow_checks)
            same == /\ first.self.data_registers[Fetched.x] = V(Fetched.x)
                    /\ first.self.data_registers[Fetched.y] = V(Fetched.y)
        IN  (first.panic \/ same) =>
                /\ ~first.panic
                /\ ~second.panic
                /\ second.self.display = chip8.display
                /\ second.self.data_registers[15] =
                      IF Erased(first.self.display, chip8.display) THEN 1 ELSE 0

(* C5: Dxyn never aborts, whatever Vx and Vy hold, and XORs sprite bit     *)
(* (r, c) into column (Vx + c) mod 64 of row (Vy + r) mod 32.              *)
C5_SpriteWrap ==
    [][ (Executes(13) /\ I + Fetched.n <= MemSize) =>
          /\ ~panicked'
          /\ chip8'.display =
                Blit(chip8.display, chip8.memory, I, V(Fetched.x), V(Fetched.y),
                     Fetched.n) ]_vars

(* C6: after a Dxyn, VF is 1 if a pixel went from 1 to 0 in that draw and  *)
(* 0 if none did, whatever VF held before; the redraw flag is set and the  *)
(* counter has advanced by 2.                                              *)
C6_CollisionFlag ==
    [][ (Executes(13) /\ ~panicked') =>
          /\ chip8'.data_registers[15] =
                IF Erased(chip8.display, chip8'.display) THEN 1 ELSE 0
          /\ chip8'.redraw_flag
          /\ chip8'.counter = chip8.counter + 2 ]_vars

(* A second draw of the glyph "0" has just erased the first.               *)
C6_Witness ==
    /\ ~panicked /\ pc = "host" /\ Last(Ins(13, 1, 2, 5))
    /\ chip8.counter = At(6)
    /\ chip8.data_registers[15] = 1
    /\ chip8.redraw_flag
    /\ \A p \in 0..(Width * Height - 1) : Cell(chip8.display, p) = 0

(* Steps that execute a call, a return, with the opcode in hand.           *)
IsCall == Executes(2)
IsRet == Executes(0) /\ Fetched.nnn = 238
Live(sp) == 0..(sp - 1)

(* C7: a call at counter P with stack pointer s < 16 stores P in slot s    *)
(* and raises the pointer to s + 1; a return with pointer s + 1 lowers it  *)
(* to s and leaves the counter at (slot s) + 2; and no step changes a slot *)
(* that is below the pointer before and after it, nor moves the pointer    *)
(* other than a call or a return. So through any balanced run of calls and *)
(* returns slot s and the slots below it keep their values, and the        *)
(* matching return leaves counter P + 2, pointer s and slots 0..s-1 as     *)
(* they were before the call.                                              *)
C7_CallReturn ==
    [][ ~panicked' =>
          /\ (IsCall /\ chip8.stack_pointer < StackSize) =>
                /\ chip8'.stack_pointer = chip8.stack_pointer + 1
                /\ chip8'.stack[chip8.stack_pointer] = chip8.counter
                /\ chip8'.counter = Fetched.nnn
          /\ IsRet =>
                /\ chip8'.stack_pointer = chip8.stack_pointer - 1
                /\ chip8'.counter = chip8.stack[chip8.stack_pointer - 1] + 2
          /\ ~(IsCall \/ IsRet) => chip8'.stack_pointer = chip8.stack_pointer
          /\ \A i \in Live(chip8.stack_pointer) \cap Live(chip8'.stack_pointer) :
                chip8'.stack[i] = chip8.stack[i] ]_vars

(* The outer subroutine of the nested program has just returned to the     *)
(* word after its call, the inner one having run and returned before it.   *)
C7_Witness ==
    /\ ~panicked /\ pc = "host" /\ Last(238)
    /\ chip8.counter = At(1)
    /\ chip8.stack_pointer = 0
    /\ chip8.stack[0] = At(0)
    /\ chip8.stack[1] = At(3)
    /\ chip8.data_registers[1] = 7

(* C8: while the process has not aborted the stack pointer is in 0..16; a  *)
(* call with pointer 16 and a return with pointer 0 abort; and nothing     *)
(* runs after an abort.                                                    *)
C8_StackPointerRange ==
    /\ [](~panicked => chip8.stack_pointer \in 0..StackSize)
    /\ [][ /\ (IsCall /\ chip8.stack_pointer = StackSize) => panicked'
           /\ (IsRet /\ chip8.stack_pointer = 0) => panicked'
           /\ ~panicked ]_vars

(* The seventeenth nested call has aborted with the pointer at 16.         *)
C8_Witness ==
    /\ panicked /\ Last(InsN(2, At(34)))
    /\ chip8.stack_pointer = StackSize
    /\ chip8.stack[StackSize - 1] = At(30)

(* C9: a run() that does not abort and does not execute Fx15 leaves the    *)
(* delay timer at max(d - 1, 0), whatever it executes, and likewise the    *)
(* sound timer unless it executes Fx18; nothing else in main changes a     *)
(* timer. So k such calls leave max(d - k, 0), and 0 stays 0.              *)
C9_TimerDecay ==
    [][ /\ (RunStep /\ FetchOk(chip8) /\ ~panicked') =>
              /\ ~(Fetched.leading = 15 /\ Fetched.kk = 21) =>
                    chip8'.delay_timer = Max(chip8.delay_timer - 1, 0)
              /\ ~(Fetched.leading = 15 /\ Fetched.kk = 24) =>
                    chip8'.sound_timer = Max(chip8.sound_timer - 1, 0)
        /\ ~RunStep =>
              /\ chip8'.delay_timer = chip8.delay_timer
              /\ chip8'.sound_timer = chip8.sound_timer ]_vars

(* The delay timer, set to 4, has run down to 0 while the program waits    *)
(* for a key.                                                              *)
C9_Witness ==
    /\ ~panicked /\ pc = "host" /\ Last(InsK(15, 3, 10))
    /\ chip8.counter = At(3)
    /\ chip8.pressed_key = None
    /\ chip8.data_registers[1] = 4
    /\ chip8.data_registers[2] = 3
    /\ chip8.delay_timer = 0

(* The machine is about to decode an Fx0A.                                 *)
Waiting == FetchOk(chip8) /\ Fetched.leading = 15 /\ Fetched.kk = 10
(* Addresses at which the programs wait for a key.                         *)
WaitAddrs == {At(0), At(1), At(3)}

(* C10: a run() that decodes Fx0A with no key down changes neither the     *)
(* counter, the registers, I, memory, the stack nor the display, and sets  *)
(* the redraw flag; with key k down it sets Vx to k and advances the       *)
(* counter by 2; the host's part of the loop leaves the counter alone. And *)
(* a machine that is to run an Fx0A with a key down gets past it.          *)
C10_WaitForKey ==
    /\ [][ /\ (Executes(15) /\ Fetched.kk = 10) =>
                 IF is_some(chip8.pressed_key)
                 THEN /\ ~panicked'
                      /\ chip8'.data_registers[Fetched.x] = unwrap(chip8.pressed_key)
                      /\ chip8'.counter = chip8.counter + 2
                 ELSE /\ ~panicked'
                      /\ chip8'.counter = chip8.counter
                      /\ chip8'.data_registers = chip8.data_registers
                      /\ chip8'.address_register = chip8.address_register
                      /\ chip8'.memory = chip8.memory
                      /\ chip8'.stack = chip8.stack
                      /\ chip8'.stack_pointer = chip8.stack_pointer
                      /\ chip8'.display = chip8.display
                      /\ chip8'.redraw_flag
           /\ ~RunStep => chip8'.counter = chip8.counter ]_vars
    /\ \A a \in WaitAddrs :
          (pc = "run" /\ ~panicked /\ Waiting /\ chip8.counter = a
              /\ is_some(chip8.pressed_key))
            ~> (chip8.counter # a)

(* Key V has just ended a wait that lasted at least one step: V1 holds 15. *)
C10_Witness ==
    /\ ~panicked /\ pc = "host" /\ Last(InsK(15, 1, 10))
    /\ chip8.counter = At(1)
    /\ chip8.data_registers[1] = 15
    /\ chip8.redraw_flag


(* C11: 8xy4 with x # F never aborts and leaves Vx = (Vx + Vy) mod 256,    *)
(* VF = 1 if Vx + Vy > 255 and VF = 0 otherwise, and the counter advanced  *)
(* by 2.                                                                   *)
C11_AddCarry ==
    [][ (Executes(8) /\ Fetched.n = 4 /\ Fetched.x # 15) =>
          LET sum == V(Fetched.x) + V(Fetched.y) IN
          /\ ~panicked'
          /\ chip8'.data_registers[Fetched.x] = sum % U8
          /\ chip8'.data_registers[15] = (IF sum > 255 THEN 1 ELSE 0)
          /\ chip8'.counter = chip8.counter + 2 ]_vars

(* V1 = 0xFF + 0x02 = 0x01 with VF = 1 came first, then V2 = 2 + 1, and    *)
(* the last add, V1 = 1 + 3, has set VF back to 0.                         *)
C11_Witness ==
    /\ ~panicked /\ pc = "host" /\ Last(Ins(8, 1, 2, 4))
    /\ chip8.counter = At(5)
    /\ chip8.data_registers[1] = 4
    /\ chip8.data_registers[2] = 3
    /\ chip8.data_registers[15] = 0

(* C12: 7xkk never aborts, leaves Vx = (Vx + kk) mod 256 and every other   *)
(* register, VF among them, as it was, and advances the counter by 2.      *)
C12_AddImmediate ==
    [][ Executes(7) =>
          /\ ~panicked'
          /\ chip8'.data_registers[Fetched.x] = (V(Fetched.x) + Fetched.kk) % U8
          /\ \A r \in 0..(NumRegs - 1) \ {Fetched.x} :
                chip8'.data_registers[r] = V(r)
          /\ chip8'.counter = chip8.counter + 2 ]_vars

(* V1 = 0xFF plus 0xFF has just wrapped to 0xFE with VF still 9.           *)
C12_Witness ==
    /\ ~panicked /\ pc = "host" /\ Last(InsK(7, 1, 255))
    /\ chip8.counter = At(3)
    /\ chip8.data_registers[1] = 254
    /\ chip8.data_registers[15] = 9

(* C13: Fx29 never aborts and leaves I = Vx * 5, the product not cut to a  *)
(* byte, whatever Vx holds.                                                *)
C13_FontAddress ==
    [][ (Executes(15) /\ Fetched.kk = 41) =>
          /\ ~panicked'
          /\ chip8'.address_register = V(Fetched.x) * 5 ]_vars

(* C14: Fx1E never aborts and leaves I = I + Vx, the exact sum, and VF = 1 *)
(* if that I is above 0x0F00 and VF = 0 otherwise.                         *)
C14_AddToIndex ==
    [][ (Executes(15) /\ Fetched.kk = 30) =>
          /\ ~panicked'
          /\ chip8'.address_register = I + V(Fetched.x)
          /\ chip8'.data_registers[15] =
                (IF chip8'.address_register > 3840 THEN 1 ELSE 0) ]_vars

C16_BcdStore ==
    [][ (Executes(15) /\ Fetched.kk = 51 /\ I <= MemSize - 3) =>
          LET d(k) == Cell(chip8'.memory, I + k) IN
          /\ ~panicked'
          /\ \A k \in 0..2 : d(k) \in 0..9
          /\ 100 * d(0) + 10 * d(1) + d(2) = V(Fetched.x)
          /\ \A a \in (0..(MemSize - 1)) \ {I, I + 1, I + 2} :
                Cell(chip8'.memory, a) = Cell(chip8.memory, a)
          /\ chip8'.data_registers = chip8.data_registers
          /\ chip8'.address_register = chip8.address_register ]_vars

(* V1 = 156 has just been stored at I = 0x300 as 1, 5, 6.                  *)
C16_Witness ==
    /\ ~panicked /\ pc = "host" /\ Last(InsK(15, 1, 51))
    /\ chip8.address_register = 768
    /\ chip8.data_registers[1] = 156
    /\ Cell(chip8.memory, 768) = 1
    /\ Cell(chip8.memory, 769) = 5
    /\ Cell(chip8.memory, 770) = 6
    /\ Cell(chip8.memory, 771) = 0

(* The memory indices the run() about to start names, as plain integers:   *)
(* the two of the fetch, and those of the instruction fetched.             *)
Touched ==
    {chip8.counter, chip8.counter + 1}
    \cup (IF ~FetchOk(chip8) THEN {}
          ELSE CASE Fetched.leading = 13 -> {I + k : k \in 0..(Fetched.n - 1)}
                 [] Fetched.leading = 15 /\ Fetched.kk = 51 -> {I, I + 1, I + 2}
                 [] Fetched.leading = 15 /\ Fetched.kk \in {85, 101} ->
                      {I + k : k \in 0..Fetched.x}
                 [] OTHER -> {})
(* The instruction about to run is one that writes memory.                 *)
Stores == FetchOk(chip8) /\ Fetched.leading = 15 /\ Fetched.kk \in {51, 85}

(* C17: a run() that names a memory index outside 0..4095, in its fetch,   *)
(* its sprite reads, its BCD writes or its block transfer, aborts; no cell *)
(* outside 0..4095 exists; and the only cells a run() changes are cells in *)
(* range that a storing instruction names. Nothing else in the loop        *)
(* changes memory.                                                         *)
C17_MemoryBounds ==
    [][ /\ DOMAIN chip8'.memory \subseteq 0..(MemSize - 1)
        /\ RunStep =>
              /\ (\E a \in Touched : a \notin 0..(MemSize - 1)) => panicked'
              /\ \A a \in DOMAIN chip8.memory \cup DOMAIN chip8'.memory :
                    Cell(chip8'.memory, a) # Cell(chip8.memory, a) =>
                        Stores /\ a \in Touched
        /\ (pc \in {"run", "host"} /\ ~RunStep) => chip8'.memory = chip8.memory ]_vars

(* With I brought to 65535 by Fx1E, an F255 has aborted at its first write *)
(* and the start of memory is as load_fonts left it.                       *)
C17_Witness ==
    /\ panicked /\ Last(InsK(15, 2, 85))
    /\ chip8.address_register = U16 - 1
    /\ chip8.data_registers[2] = 240
    /\ \A a \in 0..2 : Cell(chip8.memory, a) = fontset[a + 1]

(* A word whose sub-selector no arm of its family names.                   *)
Unrecognized(o) ==
    \/ o.leading = 8 /\ o.n \notin {0, 1, 2, 3, 4, 5, 6, 7, 14}
    \/ o.leading = 14 /\ o.kk \notin {158, 161}
    \/ o.leading = 15 /\ o.kk \notin {7, 10, 21, 24, 30, 41, 51, 85, 101}

(* C18: a run() that fetches a word with an unrecognized sub-selector      *)
(* aborts with the counter, registers, I, stack, stack pointer, memory,    *)
(* display and both timers as they were; every other word, run as the      *)
(* sixth word of its program (stack pointer 1, V1 = 3, I = 0), is executed *)
(* without abort.                                                          *)
C18_UnrecognizedFatal ==
    [][ (RunStep /\ FetchOk(chip8)) =>
          IF Unrecognized(Fetched)
          THEN /\ panicked'
               /\ chip8'.counter = chip8.counter
               /\ chip8'.data_registers = chip8.data_registers
               /\ chip8'.address_register = chip8.address_register
               /\ chip8'.stack = chip8.stack
               /\ chip8'.stack_pointer = chip8.stack_pointer
               /\ chip8'.memory = chip8.memory
               /\ chip8'.display = chip8.display
               /\ chip8'.delay_timer = chip8.delay_timer
               /\ chip8'.sound_timer = chip8.sound_timer
          ELSE (chip8.counter = At(5) /\ chip8.stack_pointer = 1) => ~panicked' ]_vars

(* 8128 has aborted the process with both timers still at 1 and 2 and the  *)
(* glyph still on the display.                                             *)
C18_Witness ==
    /\ panicked /\ Last(Ins(8, 1, 2, 8))
    /\ chip8.counter = At(5)
    /\ chip8.stack_pointer = 1
    /\ chip8.data_registers[1] = 3
    /\ chip8.delay_timer = 1
    /\ chip8.sound_timer = 2
    /\ Cell(chip8.display, 3 * Width + 3) = 1

(* C19: in one run() the instruction acts before the tick: Fx15 with       *)
(* Vx = v leaves the delay timer at max(v - 1, 0), Fx18 the sound timer    *)
(* likewise, and Fx07 leaves in Vx the delay timer as it was before the    *)
(* run, which then ends one lower.                                         *)
C19_EffectThenTick ==
    [][ (Executes(15) /\ ~panicked') =>
          /\ Fetched.kk = 21 => chip8'.delay_timer = Max(V(Fetched.x) - 1, 0)
          /\ Fetched.kk = 24 => chip8'.sound_timer = Max(V(Fetched.x) - 1, 0)
          /\ Fetched.kk = 7 =>
                /\ chip8'.data_registers[Fetched.x] = chip8.delay_timer
                /\ chip8'.delay_timer = Max(chip8.delay_timer - 1, 0) ]_vars

(* F115 with V1 = 4 left the delay timer at 3; the F207 after it has put 3 *)
(* in V2 and left the timer at 2.                                          *)
C19_Witness ==
    /\ ~panicked /\ pc = "host" /\ Last(InsK(15, 2, 7))
    /\ chip8.counter = At(3)
    /\ chip8.data_registers[1] = 4
    /\ chip8.data_registers[2] = 3
    /\ chip8.delay_timer = 2

(* C20: every cell of the display holds 0 or 1, always; a step that        *)
(* changes the display is a run() of 00E0 or of a Dxyn; and after a 00E0   *)
(* every cell holds 0.                                                     *)
C20_DisplayCells ==
    /\ [](/\ DOMAIN chip8.display \subseteq 0..(Width * Height - 1)
          /\ \A p \in 0..(Width * Height - 1) : Cell(chip8.display, p) \in {0, 1})
    /\ [][ /\ chip8'.display # chip8.display =>
                 (Executes(13) \/ (Executes(0) /\ Fetched.nnn = 224))
           /\ (Executes(0) /\ Fetched.nnn = 224) =>
                 /\ ~panicked'
                 /\ \A p \in 0..(Width * Height - 1) : Cell(chip8'.display, p) = 0 ]_vars

(* The glyph "0" at (3, 3) has just had another drawn over it at (3, 0):   *)
(* in row 3 the cells lit by both, columns 3 and 6, are dark again, the    *)
(* ones between them are still lit, and row 0 is lit by the second alone.  *)
C20_Witness ==
    /\ ~panicked /\ pc = "host" /\ Last(Ins(13, 1, 2, 5))
    /\ chip8.counter = At(6)
    /\ chip8.data_registers[15] = 1
    /\ Cell(chip8.display, 3 * Width + 3) = 0
    /\ Cell(chip8.display, 3 * Width + 4) = 1
    /\ Cell(chip8.display, 3 * Width + 6) = 0
    /\ Cell(chip8.display, 3) = 1

=============================================================================
